---- MODULE Spec2Model ----
(***************************************************************************)
(* Model of the wxpay client (client.go, account.go): request signing,     *)
(* response verification, the two POST transports and the endpoint         *)
(* wrappers.                                                               *)
(*                                                                         *)
(* A Go string is a sequence of one-character strings, so that byte-wise   *)
(* ordering, letter case and the first character of a payload are all      *)
(* observable.  A Params value (map[string]string) is a function from      *)
(* keys to values.                                                         *)
(***************************************************************************)
EXTENDS Integers, Sequences, FiniteSets, TLC

VARIABLES account, signType, httpConnectTimeoutMs, httpReadTimeoutMs, pc, call, ret, net

vars == <<account, signType, httpConnectTimeoutMs, httpReadTimeoutMs, pc, call, ret, net>>

\* ------------------------------------------------------------------ bounds
\* Bytes of the modelled MD5 digest (16 in crypto/md5).
MD5Size == 1
\* Bytes of the modelled HMAC-SHA256 digest (32 in crypto/sha256).
SHA256Size == 2
\* Longest variadic flags / payTp argument list a caller passes.
MaxVariadic == 2
\* Largest map whose every iteration order is explored.
MaxPermKeys == 3

\* --------------------------------------------------------------- constants
DefaultConnectTimeoutMs == 2000
DefaultReadTimeoutMs == 1000

\* ----------------------------------------------------------------- strings
Digits == <<"0", "1", "2", "3", "4", "5", "6", "7", "8", "9">>
UpperCase == <<"A", "B", "C", "D", "E", "F", "G", "H", "I", "J", "K", "L", "M",
               "N", "O", "P", "Q", "R", "S", "T", "U", "V", "W", "X", "Y", "Z">>
LowerCase == <<"a", "b", "c", "d", "e", "f", "g", "h", "i", "j", "k", "l", "m",
               "n", "o", "p", "q", "r", "s", "t", "u", "v", "w", "x", "y", "z">>
Punct == {"&", ",", "-", "<", "=", "_"}

Range(s) == {s[i] : i \in DOMAIN s}

Chars == Range(Digits) \cup Range(UpperCase) \cup Range(LowerCase) \cup Punct

\* The byte value of a character (ASCII).
Ord == [c \in Chars |->
          IF c \in Range(Digits) THEN 47 + (CHOOSE i \in DOMAIN Digits : Digits[i] = c)
          ELSE IF c \in Range(UpperCase)
               THEN 64 + (CHOOSE i \in DOMAIN UpperCase : UpperCase[i] = c)
          ELSE IF c \in Range(LowerCase)
               THEN 96 + (CHOOSE i \in DOMAIN LowerCase : LowerCase[i] = c)
          ELSE CASE c = "&" -> 38 [] c = "," -> 44 [] c = "-" -> 45
                 [] c = "<" -> 60 [] c = "=" -> 61 [] c = "_" -> 95]

\* unicode.ToUpper on one ASCII character.
UpperOf == [c \in Chars |->
              IF c \in Range(LowerCase)
              THEN UpperCase[CHOOSE i \in DOMAIN LowerCase : LowerCase[i] = c]
              ELSE c]

ToUpper(s) == [i \in DOMAIN s |-> UpperOf[s[i]]]

\* Go's < on strings: byte-wise lexicographic order.
RECURSIVE StrLess(_, _)
StrLess(a, b) ==
  IF b = <<>> THEN FALSE
  ELSE IF a = <<>> THEN TRUE
  ELSE IF Ord[Head(a)] # Ord[Head(b)] THEN Ord[Head(a)] < Ord[Head(b)]
  ELSE StrLess(Tail(a), Tail(b))

\* Sign with the keys left in the map's iteration order.
SortStringsNone(keys) == keys

\* sort.Strings, as an insertion sort over the collected keys.
RECURSIVE Insert(_, _)
Insert(sorted, k) ==
  IF sorted = <<>> THEN <<k>>
  ELSE IF StrLess(k, Head(sorted)) THEN <<k>> \o sorted
  ELSE <<Head(sorted)>> \o Insert(Tail(sorted), k)

RECURSIVE SortStrings(_)
SortStrings(keys) ==
  IF keys = <<>> THEN <<>>
  ELSE Insert(SortStrings(SubSeq(keys, 1, Len(keys) - 1)), keys[Len(keys)])

\* ------------------------------------------------------------ named strings
SignField == <<"s", "i", "g", "n">>
ReturnCode == <<"r", "e", "t", "u", "r", "n", "_", "c", "o", "d", "e">>
ReturnMsg == <<"r", "e", "t", "u", "r", "n", "_", "m", "s", "g">>
Data == <<"d", "a", "t", "a">>
AppId == <<"a", "p", "p", "i", "d">>
MchId == <<"m", "c", "h", "_", "i", "d">>
MchAppId == <<"m", "c", "h", "_", "a", "p", "p", "i", "d">>
MchIdAlt == <<"m", "c", "h", "i", "d">>
SignTypeField == <<"s", "i", "g", "n", "_", "t", "y", "p", "e">>
NonceStr == <<"n", "o", "n", "c", "e", "_", "s", "t", "r">>
KeyEq == <<"k", "e", "y", "=">>
Success == <<"S", "U", "C", "C", "E", "S", "S">>
Fail == <<"F", "A", "I", "L">>
Ok == <<"o", "k">>
MD5 == <<"M", "D", "5">>
HMACSHA256 == <<"H", "M", "A", "C", "-", "S", "H", "A", "2", "5", "6">>
MchToCashTp == <<"m", "c", "h", "_", "t", "o", "_", "c", "a", "s", "h">>

\* ------------------------------------------------------------------ Params
ContainsKey(params, k) == k \in DOMAIN params

GetString(params, k) == IF k \in DOMAIN params THEN params[k] ELSE <<>>

SetString(params, k, v) ==
  [x \in DOMAIN params \cup {k} |-> IF x = k THEN v ELSE params[x]]

\* params without the key k (delete(params, k) on a copy).
Without(params, k) == [x \in DOMAIN params \ {k} |-> params[x]]

EmptyParams == [x \in {} |-> <<>>]

\* ----------------------------------------------------------------- digests
HexDigits == <<"0", "1", "2", "3", "4", "5", "6", "7", "8", "9",
               "a", "b", "c", "d", "e", "f">>

\* hex.EncodeToString: two lower-case hex digits per byte.
RECURSIVE EncodeToString(_)
EncodeToString(bytes) ==
  IF bytes = <<>> THEN <<>>
  ELSE <<HexDigits[(Head(bytes) \div 16) + 1], HexDigits[(Head(bytes) % 16) + 1]>>
       \o EncodeToString(Tail(bytes))

\* The checksum behind one digest byte: the bytes of s[lo..hi], each offset
\* by salt and weighted by its (odd) position weight, summed by halves.
RECURSIVE WeightedSum(_, _, _, _)
WeightedSum(s, salt, lo, hi) ==
  IF lo > hi THEN 0
  ELSE IF lo = hi THEN (Ord[s[lo]] + salt) * (2 * lo + 1)
  ELSE WeightedSum(s, salt, lo, (lo + hi) \div 2)
       + WeightedSum(s, salt, ((lo + hi) \div 2) + 1, hi)

\* md5.Sum(data): a fixed-size unkeyed digest of the bytes, each byte mod 2^8.
md5Sum(data) ==
  [j \in 1..MD5Size |-> (j + WeightedSum(data, j, 1, Len(data))) % 256]

\* hmac.New(sha256.New, key); Write(data); Sum(nil): a fixed-size keyed digest.
hmacSha256(key, data) ==
  [j \in 1..SHA256Size |->
     (101 + 31 * WeightedSum(key, j + 7, 1, Len(key))
          + WeightedSum(data, j, 1, Len(data))) % 256]

\* ------------------------------------------------------------------- Sign
\* Sign with the sign field left among the signed keys.
CollectKeysWithSign(iter) == iter

\* for k := range params: the keys other than "sign", in the map's iteration
\* order iter (a sequence enumerating DOMAIN params in an unspecified order).
CollectKeys(iter) == SelectSeq(iter, LAMBDA k : k # SignField)

\* The buf.WriteString loop over the sorted keys.
RECURSIVE WriteFields(_, _)
WriteFields(params, keys) ==
  IF keys = <<>> THEN <<>>
  ELSE (IF Len(GetString(params, Head(keys))) > 0
        THEN Head(keys) \o <<"=">> \o GetString(params, Head(keys)) \o <<"&">>
        ELSE <<>>)
       \o WriteFields(params, Tail(keys))

\* The bytes Sign hashes: buf.Bytes() after key=<apiKey> is appended.
SignBuf(acct, params, iter) ==
  WriteFields(params, SortStrings(CollectKeys(iter))) \o KeyEq \o acct.apiKey

\* The switch on c.signType; str stays empty when neither case matches.
Digest(acct, st, buf) ==
  IF st = MD5 THEN EncodeToString(md5Sum(buf))
  ELSE IF st = HMACSHA256 THEN EncodeToString(hmacSha256(acct.apiKey, buf))
  ELSE <<>>

Sign(acct, st, params, iter) == ToUpper(Digest(acct, st, SignBuf(acct, params, iter)))

\* -------------------------------------------------------- iteration orders
\* Every enumeration of the finite set S as a sequence.
RECURSIVE Perms(_)
Perms(S) ==
  IF S = {} THEN {<<>>}
  ELSE UNION {{<<x>> \o p : p \in Perms(S \ {x})} : x \in S}

\* S in descending byte order.
RECURSIVE Descending(_)
Descending(S) ==
  IF S = {} THEN <<>>
  ELSE LET m == CHOOSE x \in S : \A y \in S \ {x} : StrLess(y, x)
       IN <<m>> \o Descending(S \ {m})

Rotate(s, n) == SubSeq(s, n + 1, Len(s)) \o SubSeq(s, 1, n)

\* The orders in which a range loop may enumerate a map with key set S: Go
\* leaves the order unspecified.  Every order for a map of at most MaxPermKeys
\* keys; for a larger map the runtime's random starting offset into one
\* bucket order.
IterOrders(S) ==
  IF Cardinality(S) <= MaxPermKeys THEN Perms(S)
  ELSE {Rotate(Descending(S), n) : n \in 0..(Cardinality(S) - 1)}

\* ------------------------------------------------------------- the client
NilErr == "nil"

\* The Client struct, as the operators below read it.
Client == [account |-> account, signType |-> signType,
           httpConnectTimeoutMs |-> httpConnectTimeoutMs,
           httpReadTimeoutMs |-> httpReadTimeoutMs]

\* ValidSign comparing without regard to letter case.
ValidSignFold(c, params, iter) ==
  IF ~ContainsKey(params, SignField) THEN FALSE
  ELSE ToUpper(GetString(params, SignField))
       = ToUpper(Sign(c.account, c.signType, params, iter))

ValidSign(c, params, iter) ==
  IF ~ContainsKey(params, SignField) THEN FALSE
  ELSE GetString(params, SignField) = Sign(c.account, c.signType, params, iter)

\* ------------------------------------------------------------ the XML codec
\* A payload is a sequence of tokens: the document's opening tag, one token
\* per element, the closing tag; or one token of raw (non-XML) text.
Tok(tag, k, v) == [tag |-> tag, k |-> k, v |-> v]

RECURSIVE Ascending(_)
Ascending(S) ==
  IF S = {} THEN <<>>
  ELSE LET m == CHOOSE x \in S : \A y \in S \ {x} : StrLess(x, y)
       IN <<m>> \o Ascending(S \ {m})

\* MapToXml: one element per entry between the document tags.
MapToXml(params) ==
  LET keys == Ascending(DOMAIN params)
  IN <<Tok("open", <<>>, <<>>)>>
     \o [i \in DOMAIN keys |-> Tok("elem", keys[i], params[keys[i]])]
     \o <<Tok("close", <<>>, <<>>)>>

\* XmlToMap: the elements of the payload as a map; a later duplicate wins and
\* a payload that holds no element gives an empty (non-nil) map.
RECURSIVE XmlToMap(_)
XmlToMap(xmlStr) ==
  IF xmlStr = <<>> THEN EmptyParams
  ELSE LET last == xmlStr[Len(xmlStr)]
           rest == XmlToMap(SubSeq(xmlStr, 1, Len(xmlStr) - 1))
       IN IF last.tag = "elem" THEN SetString(rest, last.k, last.v) ELSE rest

\* The payload as the string it is: the text of a raw payload.
XmlText(xmlStr) == IF xmlStr = <<>> THEN <<>> ELSE xmlStr[1].v

\* strings.Index(xmlStr, "<") == 0
StartsWithLt(xmlStr) ==
  /\ Len(xmlStr) > 0
  /\ \/ xmlStr[1].tag # "text"
     \/ Len(xmlStr[1].v) > 0 /\ xmlStr[1].v[1] = "<"

\* ------------------------------------------------------- request building
generateSignedXml(c, params, iter) ==
  LET signed == SetString(params, SignField, Sign(c.account, c.signType, params, iter))
  IN [params |-> signed, xml |-> MapToXml(signed)]

\* Lines 57-65: the identity fields and the nonce, before the signature.
injectFields(c, params, payTp, nonce) ==
  LET p1 == IF Len(payTp) = 1 /\ payTp[1] = MchToCashTp
            THEN SetString(SetString(params, MchAppId, c.account.appID),
                           MchIdAlt, c.account.mchID)
            ELSE SetString(SetString(SetString(params, AppId, c.account.appID),
                                     MchId, c.account.mchID),
                           SignTypeField, c.signType)
  IN SetString(p1, NonceStr, nonce)

\* fillRequestData signing before the nonce is in the map.
fillRequestDataSignFirst(c, params, payTp, nonce, iter) ==
  LET p == injectFields(c, params, payTp, nonce)
  IN SetString(p, SignField,
               Sign(c.account, c.signType, Without(p, NonceStr), iter))

\* iter enumerates the map as it is when Sign ranges over it.
fillRequestData(c, params, payTp, nonce, iter) ==
  LET p == injectFields(c, params, payTp, nonce)
  IN SetString(p, SignField, Sign(c.account, c.signType, p, iter))

\* ------------------------------------------------------ response handling
Result(params, isNil, err, checks) ==
  [params |-> params, isNil |-> isNil, err |-> err, validSignCalls |-> checks]

\* processResponseXml handing the payload back beside a signature error.
processResponseXmlKeepPayload(c, xmlStr, flags, iter) ==
  LET params == XmlToMap(xmlStr)
      returnCode == GetString(params, ReturnCode)
  IN IF ~ContainsKey(params, ReturnCode)
     THEN Result(EmptyParams, TRUE, "no return_code in XML", 0)
     ELSE IF returnCode = Fail THEN Result(params, FALSE, NilErr, 0)
     ELSE IF returnCode = Success
          THEN IF Len(flags) = 1 /\ flags[1] = FALSE
               THEN Result(params, FALSE, NilErr, 0)
               ELSE IF ValidSign(c, params, iter)
                    THEN Result(params, FALSE, NilErr, 1)
                    ELSE Result(params, FALSE, "invalid sign value in XML", 1)
     ELSE Result(EmptyParams, TRUE, "return_code value is invalid in XML", 0)

\* processResponseXml treating every status other than SUCCESS as FAIL.
processResponseXmlLenient(c, xmlStr, flags, iter) ==
  LET params == XmlToMap(xmlStr)
      returnCode == GetString(params, ReturnCode)
  IN IF returnCode = Success
     THEN IF Len(flags) = 1 /\ flags[1] = FALSE
          THEN Result(params, FALSE, NilErr, 0)
          ELSE IF ValidSign(c, params, iter)
               THEN Result(params, FALSE, NilErr, 1)
               ELSE Result(EmptyParams, TRUE, "invalid sign value in XML", 1)
     ELSE Result(params, FALSE, NilErr, 0)

\* processResponseXml verifying the signature of FAIL responses too.
processResponseXmlVerifyFail(c, xmlStr, flags, iter) ==
  LET params == XmlToMap(xmlStr)
      returnCode == GetString(params, ReturnCode)
  IN IF ~ContainsKey(params, ReturnCode)
     THEN Result(EmptyParams, TRUE, "no return_code in XML", 0)
     ELSE IF returnCode = Fail \/ returnCode = Success
          THEN IF Len(flags) = 1 /\ flags[1] = FALSE
               THEN Result(params, FALSE, NilErr, 0)
               ELSE IF ValidSign(c, params, iter)
                    THEN Result(params, FALSE, NilErr, 1)
                    ELSE Result(EmptyParams, TRUE, "invalid sign value in XML", 1)
     ELSE Result(EmptyParams, TRUE, "return_code value is invalid in XML", 0)

processResponseXml(c, xmlStr, flags, iter) ==
  LET params == XmlToMap(xmlStr)
      returnCode == GetString(params, ReturnCode)
  IN IF ~ContainsKey(params, ReturnCode)
     THEN Result(EmptyParams, TRUE, "no return_code in XML", 0)
     ELSE IF returnCode = Fail THEN Result(params, FALSE, NilErr, 0)
     ELSE IF returnCode = Success
          THEN IF Len(flags) = 1 /\ flags[1] = FALSE
               THEN Result(params, FALSE, NilErr, 0)
               ELSE IF ValidSign(c, params, iter)
                    THEN Result(params, FALSE, NilErr, 1)
                    ELSE Result(EmptyParams, TRUE, "invalid sign value in XML", 1)
     ELSE Result(EmptyParams, TRUE, "return_code value is invalid in XML", 0)

\* -------------------------------------------------------------- transports
\* The TLS client certificate of a connection: none (a plain http.Client), or
\* what pkcs12ToPem makes of the account's archive under the given password.
\* Every archive in CertBlobs is well formed.
NoCertificate == [present |-> FALSE, pem |-> <<>>, password |-> <<>>]

pkcs12ToPem(p12, password) == [present |-> TRUE, pem |-> p12.bytes, password |-> password]

Request(url, tlsCert, body) ==
  [url |-> url, cert |-> tlsCert.present, tlsCert |-> tlsCert, body |-> body]

\* What h.Post and ioutil.ReadAll give: reply.kind is "posterr", "readerr" or
\* "ok" (with reply.body the payload read).  The request is issued in each.
Posted(url, tlsCert, p, reply) ==
  [str |-> IF reply.kind = "ok" THEN reply.body ELSE <<>>,
   err |-> IF reply.kind = "ok" THEN NilErr ELSE reply.kind,
   sent |-> <<Request(url, tlsCert, MapToXml(p))>>,
   params |-> p]

postWithoutCert(c, url, params, nd) ==
  Posted(url, NoCertificate, fillRequestData(c, params, <<>>, nd.nonce, nd.iter),
         nd.reply)

\* postWithCert falling back to the plain transport when there is no certificate.
postWithCertFallback(c, url, params, payTp, nd) ==
  IF c.account.certData.isNil
  THEN Posted(url, NoCertificate,
              fillRequestData(c, params, payTp, nd.nonce, nd.iter), nd.reply)
  ELSE Posted(url, pkcs12ToPem(c.account.certData, c.account.mchID),
              fillRequestData(c, params, payTp, nd.nonce, nd.iter), nd.reply)

postWithCert(c, url, params, payTp, nd) ==
  IF c.account.certData.isNil
  THEN [str |-> <<>>, err |-> "cert data is empty", sent |-> <<>>, params |-> params]
  ELSE Posted(url, pkcs12ToPem(c.account.certData, c.account.mchID),
              fillRequestData(c, params, payTp, nd.nonce, nd.iter), nd.reply)

\* --------------------------------------------------------------- endpoints
\* What a public operation hands back, with the requests it issued.
Outcome(res, r) == [res |-> res, sent |-> r.sent]

\* The wrappers' common tail: if err != nil { return nil, err }
\*                            return c.processResponseXml(xmlStr, flags...)
Interpret(c, r, flags, nd) ==
  IF r.err # NilErr THEN Outcome(Result(EmptyParams, TRUE, r.err, 0), r)
  ELSE Outcome(processResponseXml(c, r.str, flags, nd.iterResp), r)

Url(c, production, sandbox) == IF c.account.isSandbox THEN sandbox ELSE production

UnifiedOrder(c, params, nd) ==
  Interpret(c, postWithoutCert(c, Url(c, "UnifiedOrderUrl", "SandboxUnifiedOrderUrl"),
                               params, nd), <<>>, nd)

MicroPay(c, params, nd) ==
  Interpret(c, postWithoutCert(c, Url(c, "MicroPayUrl", "SandboxMicroPayUrl"),
                               params, nd), <<>>, nd)

Refund(c, params, nd) ==
  Interpret(c, postWithCert(c, Url(c, "RefundUrl", "SandboxRefundUrl"),
                            params, <<>>, nd), <<>>, nd)

OrderQuery(c, params, nd) ==
  Interpret(c, postWithoutCert(c, Url(c, "OrderQueryUrl", "SandboxOrderQueryUrl"),
                               params, nd), <<>>, nd)

RefundQuery(c, params, nd) ==
  Interpret(c, postWithoutCert(c, Url(c, "RefundQueryUrl", "SandboxRefundQueryUrl"),
                               params, nd), <<>>, nd)

Reverse(c, params, nd) ==
  Interpret(c, postWithCert(c, Url(c, "ReverseUrl", "SandboxReverseUrl"),
                            params, <<>>, nd), <<>>, nd)

CloseOrder(c, params, nd) ==
  Interpret(c, postWithoutCert(c, Url(c, "CloseOrderUrl", "SandboxCloseOrderUrl"),
                               params, nd), <<>>, nd)

\* The download wrappers' tail: the payload is decoded when it starts with
\* "<" and wrapped otherwise; err is handed back as the transport gave it.
Download(r) ==
  IF StartsWithLt(r.str)
  THEN Outcome(Result(XmlToMap(r.str), FALSE, r.err, 0), r)
  ELSE Outcome(Result(SetString(SetString(SetString(EmptyParams, ReturnCode, Success),
                                          ReturnMsg, Ok),
                                Data, XmlText(r.str)),
                      FALSE, r.err, 0), r)

DownloadBill(c, params, nd) ==
  Download(postWithoutCert(c, Url(c, "DownloadBillUrl", "SandboxDownloadBillUrl"),
                           params, nd))

DownloadFundFlow(c, params, nd) ==
  Download(postWithCert(c, Url(c, "DownloadFundFlowUrl", "SandboxDownloadFundFlowUrl"),
                        params, <<>>, nd))

Report(c, params, nd) ==
  Interpret(c, postWithoutCert(c, Url(c, "ReportUrl", "SandboxReportUrl"),
                               params, nd), <<>>, nd)

ShortUrl(c, params, nd) ==
  Interpret(c, postWithoutCert(c, Url(c, "ShortUrl", "SandboxShortUrl"),
                               params, nd), <<>>, nd)

AuthCodeToOpenid(c, params, nd) ==
  Interpret(c, postWithoutCert(c, Url(c, "AuthCodeToOpenidUrl",
                                      "SandboxAuthCodeToOpenidUrl"),
                               params, nd), <<>>, nd)

MchToCash(c, params, nd) ==
  Interpret(c, postWithCert(c, "MchToCashUrl", params, <<MchToCashTp>>, nd),
            <<FALSE>>, nd)

\* ------------------------------------------------------------------ inputs
KeyA == <<"a">>
KeyB == <<"b">>
KeyUpperB == <<"B">>
One == <<"1">>

\* []byte: nil or a slice.
NilBytes == [isNil |-> TRUE, bytes |-> <<>>]
Bytes(b) == [isNil |-> FALSE, bytes |-> b]

NewAccount(appID, mchID, apiKey, isSandbox) ==
  [appID |-> appID, mchID |-> mchID, apiKey |-> apiKey,
   certData |-> NilBytes, isSandbox |-> isSandbox]

ApiKeys == {<<"k">>, <<"s", "3">>}
Accounts == {NewAccount(<<"w", "x">>, <<"9">>, k, sb) : k \in ApiKeys, sb \in BOOLEAN}
CertBlobs == {<<"p", "1", "2">>}
SignTypes == {MD5, HMACSHA256, <<"S", "H", "A", "1">>}
TimeoutsMs == {DefaultReadTimeoutMs}
Nonces == {<<"n", "7">>, <<"q">>}

\* Every map over a subset of keys K with values in V.
MapsOver(K, V) == UNION {[D -> V] : D \in SUBSET K}

\* Every sequence over S of length at most n.
RECURSIVE SeqsUpTo(_, _)
SeqsUpTo(S, n) ==
  IF n = 0 THEN {<<>>}
  ELSE SeqsUpTo(S, n - 1)
       \cup {Append(q, x) : q \in {t \in SeqsUpTo(S, n - 1) : Len(t) = n - 1}, x \in S}

\* Parameter sets handed to Sign, ValidSign and generateSignedXml.
SignInputs ==
  MapsOver({KeyA, KeyB, SignField}, {<<>>, One})
  \cup MapsOver({KeyA, KeyUpperB, SignField}, {<<>>, One})

\* Parameter sets a caller hands to the request builder and the endpoints.
CallerParams == {EmptyParams, (KeyA :> One), (KeyA :> One) @@ (SignField :> One)}

\* Parameter sets a caller hands to an endpoint.
EndpointParams == {(KeyA :> One)}

\* unicode.ToLower on one ASCII character.
LowerOf == [c \in Chars |->
              IF c \in Range(UpperCase)
              THEN LowerCase[CHOOSE i \in DOMAIN UpperCase : UpperCase[i] = c]
              ELSE c]

ToLower(s) == [i \in DOMAIN s |-> LowerOf[s[i]]]

\* s with one character changed (one appended to the empty string).
AlterOne(s) ==
  IF s = <<>> THEN <<"0">> ELSE [s EXCEPT ![1] = IF @ = "0" THEN "1" ELSE "0"]

\* The signature fields a response may carry, given the correct one: right,
\* wrong by a character and, with every, right up to letter case or empty.
SignVariants(good, every) ==
  {good, AlterOne(good)} \cup (IF every THEN {ToLower(good), <<>>} ELSE {})

\* Decoded responses: a status (or none), a payload field (or none) and a
\* signature (or none) that is right, wrong by a character, right up to
\* letter case, or empty.
ResponseMaps(c, codes, extras, every) ==
  LET bases == {EmptyParams} \cup {(ReturnCode :> rc) : rc \in codes}
      withA == {b @@ e : b \in bases, e \in extras}
  IN withA \cup UNION {{b @@ (SignField :> sg) :
                           sg \in SignVariants(Sign(c.account, c.signType, b,
                                                    Ascending(DOMAIN b)),
                                               every)} :
                         b \in withA}

TextBodies == {<<>>, <<Tok("text", <<>>, <<"1", ",", "2">>)>>}

ResponseBodies(c) ==
  {MapToXml(m) : m \in ResponseMaps(c, {<<>>, Success, Fail, Ok},
                                     {(KeyA :> One)}, TRUE)}
  \cup TextBodies

\* What the network may answer an endpoint's POST with.
Replies(c) ==
  {[kind |-> "posterr", body |-> <<>>], [kind |-> "readerr", body |-> <<>>]}
  \cup {[kind |-> "ok", body |-> b] :
          b \in {MapToXml(m) : m \in {(ReturnCode :> Fail)}
                                     \cup ResponseMaps(c, {Success}, {EmptyParams},
                                                       FALSE)}
                \cup TextBodies}

Flags == SeqsUpTo(BOOLEAN, MaxVariadic)
PayTps == SeqsUpTo({MchToCashTp, MD5}, MaxVariadic)

\* ------------------------------------------------------------ the machine
NoCall == [op |-> "none"]

Init ==
  /\ account \in Accounts
  /\ signType = MD5
  /\ httpConnectTimeoutMs = DefaultConnectTimeoutMs
  /\ httpReadTimeoutMs = DefaultReadTimeoutMs
  /\ pc = "idle"
  /\ call = NoCall
  /\ ret = NoCall
  /\ net = <<>>

NewClient ==
  /\ pc = "idle"
  /\ \E a \in Accounts : account' = a
  /\ signType' = MD5
  /\ httpConnectTimeoutMs' = DefaultConnectTimeoutMs
  /\ httpReadTimeoutMs' = DefaultReadTimeoutMs
  /\ UNCHANGED <<pc, call, ret, net>>

SetHttpConnectTimeoutMs ==
  /\ pc = "idle"
  /\ \E ms \in TimeoutsMs : httpConnectTimeoutMs' = ms
  /\ UNCHANGED <<account, signType, httpReadTimeoutMs, pc, call, ret, net>>

SetHttpReadTimeoutMs ==
  /\ pc = "idle"
  /\ \E ms \in TimeoutsMs : httpReadTimeoutMs' = ms
  /\ UNCHANGED <<account, signType, httpConnectTimeoutMs, pc, call, ret, net>>

SetSignType ==
  /\ pc = "idle"
  /\ \E st \in SignTypes : signType' = st
  /\ UNCHANGED <<account, httpConnectTimeoutMs, httpReadTimeoutMs, pc, call, ret, net>>

SetAccount ==
  /\ pc = "idle"
  /\ \E a \in Accounts : account' = a
  /\ UNCHANGED <<signType, httpConnectTimeoutMs, httpReadTimeoutMs, pc, call, ret, net>>

SetCertData ==
  /\ pc = "idle"
  /\ \E d \in {NilBytes} \cup {Bytes(b) : b \in CertBlobs} :
       account' = [account EXCEPT !.certData = d]
  /\ UNCHANGED <<signType, httpConnectTimeoutMs, httpReadTimeoutMs, pc, call, ret, net>>

\* ioutil.ReadFile either fails, leaving the account as it is, or gives the bytes.
SetCertFile ==
  /\ pc = "idle"
  /\ \E read \in {[err |-> "open", data |-> NilBytes]}
                 \cup {[err |-> NilErr, data |-> Bytes(b)] : b \in CertBlobs} :
       account' = IF read.err # NilErr THEN account
                  ELSE [account EXCEPT !.certData = read.data]
  /\ UNCHANGED <<signType, httpConnectTimeoutMs, httpReadTimeoutMs, pc, call, ret, net>>

Unchanged == UNCHANGED <<account, signType, httpConnectTimeoutMs, httpReadTimeoutMs>>

CallSign ==
  /\ pc = "idle"
  /\ \E params \in SignInputs : \E iter \in IterOrders(DOMAIN params) :
       /\ call' = [op |-> "Sign", params |-> params, iter |-> iter]
       /\ ret' = [sign |-> Sign(account, signType, params, iter),
                  buf |-> SignBuf(account, params, iter)]
  /\ pc' = "done"
  /\ net' = <<>>
  /\ Unchanged

CallValidSign ==
  /\ pc = "idle"
  /\ \E params \in SignInputs \cup ResponseMaps(Client, {Success}, {(KeyA :> One)},
                                                TRUE) :
       \E iter \in IterOrders(DOMAIN params) :
         /\ call' = [op |-> "ValidSign", params |-> params]
         /\ ret' = [ok |-> ValidSign(Client, params, iter)]
  /\ pc' = "done"
  /\ net' = <<>>
  /\ Unchanged

\* The caller signs and serialises, then verifies what it holds.
CallGenerateSignedXml ==
  /\ pc = "idle"
  /\ \E params \in SignInputs :
       \E iter \in IterOrders(DOMAIN params) :
       \E iter2 \in IterOrders(DOMAIN params \cup {SignField}) :
         LET g == generateSignedXml(Client, params, iter)
         IN /\ call' = [op |-> "generateSignedXml", params |-> params]
            /\ ret' = [params |-> g.params, xml |-> g.xml,
                       valid |-> ValidSign(Client, g.params, iter2)]
  /\ pc' = "done"
  /\ net' = <<>>
  /\ Unchanged

CallFillRequestData ==
  /\ pc = "idle"
  /\ \E params \in CallerParams, payTp \in PayTps, nonce \in Nonces :
       \E iter \in IterOrders(DOMAIN injectFields(Client, params, payTp, nonce)) :
         /\ call' = [op |-> "fillRequestData", params |-> params, payTp |-> payTp,
                     nonce |-> nonce]
         /\ ret' = [params |-> fillRequestData(Client, params, payTp, nonce, iter)]
  /\ pc' = "done"
  /\ net' = <<>>
  /\ Unchanged

CallProcessResponseXml ==
  /\ pc = "idle"
  /\ \E xmlStr \in ResponseBodies(Client), flags \in Flags :
       \E iter \in IterOrders(DOMAIN XmlToMap(xmlStr)) :
         /\ call' = [op |-> "processResponseXml", xmlStr |-> xmlStr, flags |-> flags]
         /\ ret' = processResponseXml(Client, xmlStr, flags, iter)
  /\ pc' = "done"
  /\ net' = <<>>
  /\ Unchanged

\* The public endpoint named op.
Dispatch(op, c, params, nd) ==
  CASE op = "UnifiedOrder" -> UnifiedOrder(c, params, nd)
    [] op = "MicroPay" -> MicroPay(c, params, nd)
    [] op = "Refund" -> Refund(c, params, nd)
    [] op = "OrderQuery" -> OrderQuery(c, params, nd)
    [] op = "RefundQuery" -> RefundQuery(c, params, nd)
    [] op = "Reverse" -> Reverse(c, params, nd)
    [] op = "CloseOrder" -> CloseOrder(c, params, nd)
    [] op = "DownloadBill" -> DownloadBill(c, params, nd)
    [] op = "DownloadFundFlow" -> DownloadFundFlow(c, params, nd)
    [] op = "Report" -> Report(c, params, nd)
    [] op = "ShortUrl" -> ShortUrl(c, params, nd)
    [] op = "AuthCodeToOpenid" -> AuthCodeToOpenid(c, params, nd)
    [] op = "MchToCash" -> MchToCash(c, params, nd)

\* The public endpoint op called with a caller's parameter set; payTp is what
\* op passes to the request builder.
Endpoint(op, payTp) ==
  /\ pc = "idle"
  /\ \E params \in EndpointParams, nonce \in Nonces, reply \in Replies(Client) :
       \E iter \in IterOrders(DOMAIN injectFields(Client, params, payTp, nonce)) :
       \E iterResp \in IterOrders(DOMAIN XmlToMap(reply.body)) :
         LET out == Dispatch(op, Client, params, [nonce |-> nonce, iter |-> iter,
                                                      reply |-> reply,
                                                      iterResp |-> iterResp])
         IN /\ call' = [op |-> op, params |-> params, reply |-> reply]
            /\ ret' = out.res
            /\ net' = out.sent
  /\ pc' = "done"
  /\ Unchanged

CallUnifiedOrder == Endpoint("UnifiedOrder", <<>>)
CallMicroPay == Endpoint("MicroPay", <<>>)
CallRefund == Endpoint("Refund", <<>>)
CallOrderQuery == Endpoint("OrderQuery", <<>>)
CallRefundQuery == Endpoint("RefundQuery", <<>>)
CallReverse == Endpoint("Reverse", <<>>)
CallCloseOrder == Endpoint("CloseOrder", <<>>)
CallDownloadBill == Endpoint("DownloadBill", <<>>)
CallDownloadFundFlow == Endpoint("DownloadFundFlow", <<>>)
CallReport == Endpoint("Report", <<>>)
CallShortUrl == Endpoint("ShortUrl", <<>>)
CallAuthCodeToOpenid == Endpoint("AuthCodeToOpenid", <<>>)
CallMchToCash == Endpoint("MchToCash", <<MchToCashTp>>)

\* The call has returned; the caller goes on.
Return ==
  /\ pc = "done"
  /\ pc' = "idle"
  /\ call' = NoCall
  /\ ret' = NoCall
  /\ net' = <<>>
  /\ Unchanged

Next ==
  \/ NewClient
  \/ SetHttpConnectTimeoutMs
  \/ SetHttpReadTimeoutMs
  \/ SetSignType
  \/ SetAccount
  \/ SetCertData
  \/ SetCertFile
  \/ CallSign
  \/ CallValidSign
  \/ CallGenerateSignedXml
  \/ CallFillRequestData
  \/ CallProcessResponseXml
  \/ CallUnifiedOrder
  \/ CallMicroPay
  \/ CallRefund
  \/ CallOrderQuery
  \/ CallRefundQuery
  \/ CallReverse
  \/ CallCloseOrder
  \/ CallDownloadBill
  \/ CallDownloadFundFlow
  \/ CallReport
  \/ CallShortUrl
  \/ CallAuthCodeToOpenid
  \/ CallMchToCash
  \/ Return

Spec == Init /\ [][Next]_vars

\* ================================================================== claims
Done(op) == pc = "done" /\ call.op = op

\* The signature the client's key and algorithm give the fields other than sign.
Expected(params) ==
  Sign(account, signType, Without(params, SignField),
       Ascending(DOMAIN params \ {SignField}))

Algorithms == {MD5, HMACSHA256}

\* ---- C1
\* C1: sign-then-verify round trip.  Under MD5 and under HMAC-SHA256, for
\* every parameter set (holding a sign field already or not) and every API
\* key, once generateSignedXml has stored Sign(P) in P's sign field, ValidSign
\* on the same client returns true and the stored field is the signature of
\* the other fields.
C1_RoundTrip ==
  (Done("generateSignedXml") /\ signType \in Algorithms)
    => /\ ret.valid
       /\ ret.params[SignField] = Expected(call.params)
       /\ Without(ret.params, SignField) = Without(call.params, SignField)

C1_Witness ==
  /\ Done("generateSignedXml")
  /\ signType = HMACSHA256
  /\ SignField \in DOMAIN call.params
  /\ call.params[SignField] # ret.params[SignField]
  /\ KeyA \in DOMAIN call.params
  /\ ret.valid

\* ---- C2
Decoded == XmlToMap(call.xmlStr)

VerificationRequested == call.flags = <<>> \/ call.flags = <<TRUE>>

SignMissingOrWrong ==
  \/ SignField \notin DOMAIN Decoded
  \/ Decoded[SignField] # Expected(Decoded)

\* C2: trust failure discards the payload.  When the decoded response has
\* return_code SUCCESS, verification is requested (no flag, or flag true) and
\* the sign field is absent or differs from the signature recomputed over the
\* other fields, processResponseXml returns an error and no map; and it never
\* returns a map together with an error.
C2_TrustFailure ==
  Done("processResponseXml")
    => /\ (/\ GetString(Decoded, ReturnCode) = Success
           /\ VerificationRequested
           /\ SignMissingOrWrong)
          => (ret.err # NilErr /\ ret.isNil)
       /\ ret.err # NilErr => (ret.isNil /\ ret.params = EmptyParams)

C2_Witness ==
  /\ Done("processResponseXml")
  /\ signType = HMACSHA256
  /\ GetString(Decoded, ReturnCode) = Success
  /\ call.flags = <<TRUE>>
  /\ SignField \in DOMAIN Decoded
  /\ Decoded[SignField] = AlterOne(Expected(Decoded))
  /\ ret.err = "invalid sign value in XML"
  /\ ret.isNil

\* ---- C3
\* C3: malformed status is rejected.  Whenever the decoded response has no
\* return_code, or a return_code other than SUCCESS and FAIL (the empty string
\* included), processResponseXml returns an error and no map, whatever the
\* flags and whatever signature the response carries.
C3_MalformedStatus ==
  (Done("processResponseXml")
   /\ (ReturnCode \notin DOMAIN Decoded \/ Decoded[ReturnCode] \notin {Success, Fail}))
    => (ret.err # NilErr /\ ret.isNil /\ ret.validSignCalls = 0)

C3_Witness ==
  /\ Done("processResponseXml")
  /\ ReturnCode \in DOMAIN Decoded
  /\ Decoded[ReturnCode] = <<>>
  /\ SignField \in DOMAIN Decoded
  /\ Decoded[SignField] = Expected(Decoded)
  /\ signType = MD5
  /\ call.flags = <<FALSE>>
  /\ ret.err = "return_code value is invalid in XML"

\* ---- C4
\* C4: FAIL responses bypass verification.  When the decoded response has
\* return_code FAIL, processResponseXml returns the decoded map unchanged with
\* no error and without evaluating ValidSign, whether the sign field is
\* absent, wrong or right and whatever the flags are.
C4_FailBypass ==
  (Done("processResponseXml") /\ GetString(Decoded, ReturnCode) = Fail)
    => /\ ret.err = NilErr
       /\ ~ret.isNil
       /\ ret.params = Decoded
       /\ ret.validSignCalls = 0

C4_Witness ==
  /\ Done("processResponseXml")
  /\ GetString(Decoded, ReturnCode) = Fail
  /\ SignField \in DOMAIN Decoded
  /\ Decoded[SignField] # Expected(Decoded)
  /\ call.flags = <<TRUE>>
  /\ ret.params = Decoded
  /\ ret.err = NilErr
\* ---- C5
\* Byte-wise order, stated directly: a is a proper prefix of b, or the two
\* agree up to a position where a holds the smaller byte.
ByteLess(a, b) ==
  \E n \in 0..Len(a) :
    /\ n <= Len(b)
    /\ \A i \in 1..n : a[i] = b[i]
    /\ \/ n = Len(a) /\ n < Len(b)
       \/ n < Len(a) /\ n < Len(b) /\ Ord[a[n + 1]] < Ord[b[n + 1]]

\* The keys the canonical form lists: not sign, value non-empty.
SignedKeys(params) == {k \in DOMAIN params \ {SignField} : params[k] # <<>>}

\* key=value& over the keys ks, in the order given.
RECURSIVE Joined(_, _)
Joined(params, ks) ==
  IF ks = <<>> THEN <<>>
  ELSE Joined(params, SubSeq(ks, 1, Len(ks) - 1))
       \o ks[Len(ks)] \o <<"=">> \o params[ks[Len(ks)]] \o <<"&">>

CanonicalForm(params, apiKey) ==
  LET ks == CHOOSE q \in Perms(SignedKeys(params)) :
              \A i, j \in DOMAIN q : i < j => ByteLess(q[i], q[j])
  IN Joined(params, ks) \o <<"k", "e", "y", "=">> \o apiKey

\* C5: canonical form.  The bytes Sign hashes are key=value& over the keys
\* other than sign whose value is non-empty, in ascending byte-wise key
\* order, then key=<apiKey> with no trailing separator, whatever order the map
\* is enumerated in; {a:1, b:""} under key k gives a=1&key=k.
C5_CanonicalForm ==
  Done("Sign")
    => /\ ret.buf = CanonicalForm(call.params, account.apiKey)
       /\ (call.params = (KeyA :> One) @@ (KeyB :> <<>>) /\ account.apiKey = <<"k">>)
            => ret.buf = <<"a", "=", "1", "&", "k", "e", "y", "=", "k">>

C5_Witness ==
  /\ Done("Sign")
  /\ call.params = (KeyA :> One) @@ (KeyUpperB :> One) @@ (SignField :> One)
  /\ call.iter = <<KeyA, SignField, KeyUpperB>>
  /\ account.apiKey = <<"k">>
  /\ ret.buf = <<"B", "=", "1", "&", "a", "=", "1", "&", "k", "e", "y", "=", "k">>

\* ---- C6
StandardFields(p) ==
  /\ p[AppId] = account.appID
  /\ p[MchId] = account.mchID
  /\ p[SignTypeField] = signType

WalletFields(p) ==
  /\ p[MchAppId] = account.appID
  /\ p[MchIdAlt] = account.mchID

\* C6: the signature is computed last.  For both request kinds and any
\* caller-supplied parameter set, the map fillRequestData returns holds the
\* identity fields and the nonce, its sign is the signature of the final map
\* minus the sign field, and ValidSign accepts it.
C6_SignedLast ==
  Done("fillRequestData")
    => /\ ret.params[NonceStr] = call.nonce
       /\ IF call.payTp = <<MchToCashTp>> THEN WalletFields(ret.params)
          ELSE StandardFields(ret.params)
       /\ ret.params[SignField] = Expected(ret.params)
       /\ ValidSign(Client, ret.params, Descending(DOMAIN ret.params))

C6_Witness ==
  /\ Done("fillRequestData")
  /\ call.payTp = <<MchToCashTp>>
  /\ signType = MD5
  /\ call.params = (KeyA :> One) @@ (SignField :> One)
  /\ ret.params[SignField] # One
  /\ ret.params[SignField]
       # Sign(account, signType, Without(Without(ret.params, SignField), NonceStr),
              Ascending(DOMAIN ret.params))

\* ---- C7
CertOps == {"Refund", "Reverse", "DownloadFundFlow", "MchToCash"}

\* C7: certificate-bearing calls fail closed.  With no certificate material
\* on the account, Refund, Reverse, DownloadFundFlow and MchToCash hand their
\* caller an error and issue no request; and no request of theirs ever goes
\* over the transport without the certificate.
C7_FailClosed ==
  (pc = "done" /\ call.op \in CertOps)
    => /\ account.certData.isNil => (ret.err # NilErr /\ net = <<>>)
       /\ \A i \in DOMAIN net : net[i].cert

C7_Witness ==
  /\ Done("MchToCash")
  /\ account.certData.isNil
  /\ call.reply.kind = "ok"
  /\ ret.err = "cert data is empty"
  /\ ret.isNil
  /\ net = <<>>

\* ---- C8
\* C8: exactly one signature algorithm is active at sign time.  Whenever Sign
\* has been invoked, after any sequence of NewClient, SetSignType, SetAccount
\* and timeout setter calls, the selector is MD5 or HMAC-SHA256 and the result
\* is one of the two digests of the canonical form, in upper-case hex.
C8_OneAlgorithm ==
  Done("Sign")
    => /\ signType \in Algorithms
       /\ ret.sign \in {ToUpper(EncodeToString(md5Sum(ret.buf))),
                        ToUpper(EncodeToString(hmacSha256(account.apiKey, ret.buf)))}

\* ---- C9
HasLetter(s) == \E i \in DOMAIN s : s[i] \in Range(LowerCase) \cup Range(UpperCase)

\* C9 as stated: a sign field equal to the right signature up to letter case
\* verifies.
C9_CaseNormalized ==
  (Done("ValidSign") /\ SignField \in DOMAIN call.params
   /\ ToUpper(call.params[SignField]) = Expected(call.params))
    => ret.ok

\* C9 as amended: ValidSign compares the stored sign with the recomputed
\* upper-case hex signature byte for byte, the stored value as it is; the
\* upper-case signature verifies and one that differs from it, if only in
\* letter case, does not.
C9_ExactCompare ==
  Done("ValidSign")
    => ret.ok = (/\ SignField \in DOMAIN call.params
                 /\ call.params[SignField] = Expected(call.params))

C9_Witness ==
  /\ Done("ValidSign")
  /\ signType \in Algorithms
  /\ SignField \in DOMAIN call.params
  /\ HasLetter(call.params[SignField])
  /\ call.params[SignField] = ToLower(Expected(call.params))
  /\ ~ret.ok

\* ---- C10
PublicOps ==
  {"UnifiedOrder", "MicroPay", "Refund", "OrderQuery", "RefundQuery", "Reverse",
   "CloseOrder", "DownloadBill", "DownloadFundFlow", "Report", "ShortUrl",
   "AuthCodeToOpenid", "MchToCash"}

\* C10: outcomes are mutually exclusive.  No public operation hands back a
\* map whose return_code is SUCCESS together with an error; a failed transport
\* in particular gives no synthetic success map.
C10_Exclusive ==
  (pc = "done" /\ call.op \in PublicOps /\ ret.err # NilErr)
    => (ret.isNil \/ GetString(ret.params, ReturnCode) # Success)
====
